---- MODULE Spec2Model ----
(***************************************************************************)
(* Model of process_tiger_data.py: download_and_process_zcta, a linear     *)
(* pipeline  makedirs -> requests.get -> extractall -> read_file ->        *)
(* rename -> to_numeric -> column projection -> simplify -> to_file.       *)
(*                                                                         *)
(* The state is the filesystem under data/, the HTTP response, the         *)
(* in-memory table zcta and the position of the single thread of control.  *)
(* A table is a sequence of column names (pandas allows duplicates) and a  *)
(* sequence of rows, each row a sequence of cells aligned with the         *)
(* columns.  A text cell is a sequence of one-character strings.           *)
(* Coordinates are integers in units of 0.0001 degree.                     *)
(***************************************************************************)
EXTENDS Integers, Sequences, FiniteSets, TLC

VARIABLES
    pc,        \* statement the run is at: a stage of StageOrder, "done" or "failed"
    run,       \* number of the current invocation of the script
    dataDir,   \* whether the directory data/ exists
    extracted, \* the shapefile components in data/
    geojson,   \* the file data/zip_codes.geojson
    response,  \* the value of `response` (line 20)
    zcta,      \* the value of `zcta` (lines 29-42)
    server,    \* the archive published at tiger_url
    trace,     \* history: the stages this run executed, each with its result
    dataDir0,  \* history: whether data/ existed when this run started
    geojson0,  \* history: data/zip_codes.geojson when this run started
    prevOut    \* history: data/zip_codes.geojson as the last successful run left it

vars == <<pc, run, dataDir, extracted, geojson, response, zcta, server,
          trace, dataDir0, geojson0, prevOut>>

(* ------------------------------ bounds -------------------------------- *)

MaxRows == 2
MaxRuns == 2

(* --------------------------- small helpers ---------------------------- *)

Range(s) == {s[i] : i \in 1..Len(s)}

Positions(s, x) == {i \in 1..Len(s) : s[i] = x}

RECURSIVE SetToSeq(_)
SetToSeq(S) ==
    IF S = {} THEN <<>>
    ELSE LET m == CHOOSE a \in S : \A b \in S : a <= b
         IN  <<m>> \o SetToSeq(S \ {m})

(* ------------------------- pandas.to_numeric -------------------------- *)

DigitChars == {"0", "1", "2", "3", "4", "5", "6", "7", "8", "9"}

DigitVal(c) ==
    CASE c = "0" -> 0 [] c = "1" -> 1 [] c = "2" -> 2 [] c = "3" -> 3
      [] c = "4" -> 4 [] c = "5" -> 5 [] c = "6" -> 6 [] c = "7" -> 7
      [] c = "8" -> 8 [] c = "9" -> 9

\* The texts considered are over the decimal digits and the letter A: one made
\* of digits parses, one holding the letter does not.  (Signs, points, exponents
\* and blanks, which to_numeric also reads, are outside these texts.)
Parsable(text) == Len(text) > 0 /\ \A i \in 1..Len(text) : text[i] \in DigitChars

RECURSIVE ParseIntOctal(_)
ParseIntOctal(text) ==
    IF text = <<>> THEN 0
    ELSE LET n == Len(text)
         IN  IF text[1] = "0" /\ n > 1
             THEN 8 * ParseIntOctal(SubSeq(text, 1, n - 1)) + DigitVal(text[n])
             ELSE 10 * ParseIntOctal(SubSeq(text, 1, n - 1)) + DigitVal(text[n])

\* The integer a digit text denotes in base ten (leading zeros carry no value).
RECURSIVE ParseInt(_)
ParseInt(text) ==
    IF text = <<>> THEN 0
    ELSE LET n == Len(text)
         IN  10 * ParseInt(SubSeq(text, 1, n - 1)) + DigitVal(text[n])

(* ------------------- shapely simplify (Douglas-Peucker) --------------- *)

Tolerance == 10

Sq(n) == n * n

Dot(a, b, p) == (p[1] - a[1]) * (b[1] - a[1]) + (p[2] - a[2]) * (b[2] - a[2])

Cross(a, b, p) == (b[1] - a[1]) * (p[2] - a[2]) - (b[2] - a[2]) * (p[1] - a[1])

Dist2(a, b) == Sq(a[1] - b[1]) + Sq(a[2] - b[2])

\* Whether p lies farther than d from the segment a-b (exact, in integers).
FartherThan(p, a, b, d) ==
    IF a = b THEN Dist2(p, a) > Sq(d)
    ELSE IF Dot(a, b, p) <= 0 THEN Dist2(p, a) > Sq(d)
    ELSE IF Dot(a, b, p) >= Dist2(a, b) THEN Dist2(p, b) > Sq(d)
    ELSE Sq(Cross(a, b, p)) > Sq(d) * Dist2(a, b)

\* Whether p is at least as far from the segment a-b as q is.
AtLeastAsFar(p, q, a, b) ==
    LET D2N(x) == IF a = b THEN Dist2(x, a)
                  ELSE IF Dot(a, b, x) <= 0 THEN Dist2(x, a) * Dist2(a, b)
                  ELSE IF Dot(a, b, x) >= Dist2(a, b) THEN Dist2(x, b) * Dist2(a, b)
                  ELSE Sq(Cross(a, b, x))
    IN  D2N(p) >= D2N(q)

\* The indices of the vertices of line[i..j] that simplification keeps.
RECURSIVE Kept(_, _, _, _)
Kept(line, i, j, d) ==
    IF j <= i + 1 THEN {i, j}
    ELSE LET inner == (i + 1)..(j - 1)
             far == CHOOSE k \in inner :
                        \A m \in inner :
                            /\ AtLeastAsFar(line[k], line[m], line[i], line[j])
                            /\ (AtLeastAsFar(line[m], line[k], line[i], line[j]) => k <= m)
         IN  IF FartherThan(line[far], line[i], line[j], d)
             THEN Kept(line, i, far, d) \cup Kept(line, far, j, d)
             ELSE {i, j}

SimplifyGeometry(line, d) ==
    IF Len(line) < 3 THEN line
    ELSE LET idx == SetToSeq(Kept(line, 1, Len(line), d))
         IN  [n \in 1..Len(idx) |-> line[idx[n]]]

(* ------------------------------ tables -------------------------------- *)

EmptyTable == [columns |-> <<>>, rows |-> <<>>]

\* DataFrame.rename(columns={old: new}); a missing `old` is ignored.
RenameColumns(t, old, new) ==
    [t EXCEPT !.columns = [i \in 1..Len(t.columns) |->
                              IF t.columns[i] = old THEN new ELSE t.columns[i]]]

\* zcta[col]: the cells of the first column named col.
Column(t, col) ==
    LET k == CHOOSE i \in 1..Len(t.columns) :
                 t.columns[i] = col /\ \A j \in 1..(i - 1) : t.columns[j] # col
    IN  [r \in 1..Len(t.rows) |-> t.rows[r][k]]

\* zcta[col] = cells, for an existing column named col.
ReplaceColumn(t, col, cells) ==
    LET k == CHOOSE i \in 1..Len(t.columns) : t.columns[i] = col
    IN  [t EXCEPT !.rows = [r \in 1..Len(t.rows) |->
                               [t.rows[r] EXCEPT ![k] = cells[r]]]]

SelectAllColumns(t, names) == t

\* zcta[[names]]: the named columns, in the order asked for.
SelectColumns(t, names) ==
    LET k(n) == CHOOSE i \in 1..Len(t.columns) : t.columns[i] = names[n]
    IN  [columns |-> names,
         rows    |-> [r \in 1..Len(t.rows) |->
                         [n \in 1..Len(names) |-> t.rows[r][k(n)]]]]

(* ------------------------- the published data ------------------------- *)

CodeWidth == 5

ZctaColumn == "ZCTA5CE20"

\* Fixed-width text codes: three ZCTA codes and one that is not a number.
SampleCodes ==
    { <<"0", "0", "6", "0", "1">>, <<"0", "0", "6", "1", "0">>,
      <<"9", "9", "9", "5", "0">>, <<"0", "0", "6", "0", "A">> }

\* A closed ring with one vertex nearer than the tolerance to its neighbours'
\* chord, and a closed ring whose vertices are all farther apart than that.
Square == << <<0, 0>>, <<50, 3>>, <<100, 0>>, <<100, 100>>, <<0, 100>>, <<0, 0>> >>

Triangle == << <<0, 0>>, <<200, 0>>, <<0, 200>>, <<0, 0>> >>

SampleGeometries == {Square, Triangle}

\* The attribute columns a shapefile may carry, besides its geometry.
AttributeColumns ==
    { <<ZctaColumn>>, <<ZctaColumn, "GEOID20">>, <<ZctaColumn, "zip">>,
      <<ZctaColumn, "GEOID20", "zip">>, <<"GEOID20">>, <<"zip">>,
      <<"GEOID20", "zip">>, <<>> }

\* Every attribute of a feature carries its code, as GEOID20 does in TIGER data.
SourceTable(attrs, feats) ==
    [columns |-> attrs \o <<"geometry">>,
     rows    |-> [r \in 1..Len(feats) |->
                     [c \in 1..(Len(attrs) + 1) |->
                         IF c <= Len(attrs) THEN feats[r][1] ELSE feats[r][2]]]]

FeatureLists == UNION {[1..n -> SampleCodes \X SampleGeometries] : n \in 0..MaxRows}

SourceTables == {SourceTable(a, f) : a \in AttributeColumns, f \in FeatureLists}

NoArchive == [hasShp |-> FALSE, table |-> EmptyTable]

\* What tiger_url may serve: a shapefile, or an archive without the .shp member.
Archives == {NoArchive} \cup {[hasShp |-> TRUE, table |-> t] : t \in SourceTables}

HttpStatuses == {200, 404, 500}

NoResponse == [status |-> 0, isZip |-> FALSE, body |-> NoArchive]

NoFiles == [present |-> FALSE, content |-> NoArchive]

NoFile == [exists |-> FALSE, complete |-> FALSE, features |-> <<>>]

Truncated == [exists |-> TRUE, complete |-> FALSE, features |-> <<>>]

\* An output file left by an earlier run on other data.
OldFile ==
    [exists |-> TRUE, complete |-> TRUE,
     features |-> << [properties |-> << <<"zip", 12345>> >>, geometry |-> Triangle] >>]

(* --------------------------- GeoJSON driver --------------------------- *)

\* One feature per row: every column but geometry becomes a property.
Features(t) ==
    LET g == CHOOSE i \in 1..Len(t.columns) : t.columns[i] = "geometry"
        props == SetToSeq({i \in 1..Len(t.columns) : i # g})
    IN  [r \in 1..Len(t.rows) |->
            [properties |-> [n \in 1..Len(props) |->
                                <<t.columns[props[n]], t.rows[r][props[n]]>>],
             geometry   |-> t.rows[r][g]]]

AppendGeoJSON(file, t) ==
    [exists |-> TRUE, complete |-> TRUE, features |-> file.features \o Features(t)]

\* to_file(path, driver='GeoJSON') replaces whatever the path held.
WriteGeoJSON(file, t) == [exists |-> TRUE, complete |-> TRUE, features |-> Features(t)]

\* extractall: members replace files of the same name, other files stay.
Overlay(old, archive) ==
    [present |-> TRUE,
     content |-> IF archive.hasShp THEN archive ELSE old.content]

(* ---------------------------- control flow ---------------------------- *)

\* The statements of download_and_process_zcta in program order.
StageOrder ==
    <<"mkdir", "fetch", "extract", "read", "rename", "coerce", "project",
      "simplify", "write">>

NextStage(stage) ==
    LET i == CHOOSE k \in 1..Len(StageOrder) : StageOrder[k] = stage
    IN  IF i = Len(StageOrder) THEN "done" ELSE StageOrder[i + 1]

Advance(stage) ==
    /\ pc' = NextStage(stage)
    /\ trace' = Append(trace, <<stage, "ok">>)

AbortRetry(stage, kind) ==
    /\ pc' = "fetch"
    /\ trace' = Append(trace, <<stage, kind>>)
    /\ UNCHANGED <<dataDir, extracted>>

AbortCleanup(stage, kind) ==
    /\ pc' = "failed"
    /\ trace' = Append(trace, <<stage, kind>>)
    /\ extracted' = NoFiles
    /\ UNCHANGED dataDir

\* No statement is inside a try block: an exception ends the run where it is
\* raised, and nothing on disk is removed.
Abort(stage, kind) ==
    /\ pc' = "failed"
    /\ trace' = Append(trace, <<stage, kind>>)
    /\ UNCHANGED <<dataDir, extracted>>

Init ==
    /\ pc = StageOrder[1]
    /\ run = 1
    /\ dataDir \in BOOLEAN
    /\ extracted = NoFiles
    /\ geojson \in (IF dataDir THEN {NoFile, OldFile} ELSE {NoFile})
    /\ response = NoResponse
    /\ zcta = EmptyTable
    /\ server \in Archives
    /\ trace = <<>>
    /\ dataDir0 = dataDir
    /\ geojson0 = geojson
    /\ prevOut = NoFile

(* ------------------------------ actions ------------------------------- *)

MkdirNever ==
    /\ pc = "mkdir"
    /\ Advance("mkdir")
    /\ UNCHANGED <<run, dataDir, extracted, geojson, response, zcta, server,
                   dataDir0, geojson0, prevOut>>

\* if not os.path.exists('data'): os.makedirs('data')
Mkdir ==
    /\ pc = "mkdir"
    /\ \/ /\ dataDir
          /\ Advance("mkdir")
          /\ UNCHANGED <<dataDir, extracted>>
       \/ /\ ~dataDir
          /\ dataDir' = TRUE
          /\ Advance("mkdir")
          /\ UNCHANGED extracted
       \/ /\ ~dataDir
          /\ Abort("mkdir", "OSError")
    /\ UNCHANGED <<run, geojson, response, zcta, server, dataDir0, geojson0, prevOut>>

FetchRaiseForStatus ==
    /\ pc = "fetch"
    /\ \/ /\ Abort("fetch", "ConnectionError")
          /\ UNCHANGED response
       \/ /\ \E status \in HttpStatuses \ {200} :
                response' = [status |-> status, isZip |-> FALSE, body |-> NoArchive]
          /\ Abort("fetch", "HTTPError")
       \/ /\ \E isZip \in BOOLEAN :
                response' = [status |-> 200, isZip |-> isZip,
                             body |-> IF isZip THEN server ELSE NoArchive]
          /\ Advance("fetch")
          /\ UNCHANGED <<dataDir, extracted>>
    /\ UNCHANGED <<run, geojson, zcta, server, dataDir0, geojson0, prevOut>>

\* response = requests.get(tiger_url): any status yields a response; only a
\* transport failure raises.  A body that is not the archive is not a zip.
Fetch ==
    /\ pc = "fetch"
    /\ \/ /\ Abort("fetch", "ConnectionError")
          /\ UNCHANGED response
       \/ /\ \E status \in HttpStatuses, isZip \in BOOLEAN :
                /\ status # 200 => ~isZip
                /\ response' = [status |-> status, isZip |-> isZip,
                                body |-> IF isZip THEN server ELSE NoArchive]
          /\ Advance("fetch")
          /\ UNCHANGED <<dataDir, extracted>>
    /\ UNCHANGED <<run, geojson, zcta, server, dataDir0, geojson0, prevOut>>

\* with zipfile.ZipFile(io.BytesIO(response.content)) as zip_ref:
\*     zip_ref.extractall("data")
Extract ==
    /\ pc = "extract"
    /\ \/ /\ ~response.isZip
          /\ Abort("extract", "BadZipFile")
       \/ /\ response.isZip
          /\ Abort("extract", "OSError")
       \/ /\ response.isZip
          /\ extracted' = Overlay(extracted, response.body)
          /\ dataDir' = TRUE
          /\ Advance("extract")
    /\ UNCHANGED <<run, geojson, response, zcta, server, dataDir0, geojson0, prevOut>>

\* zcta = gpd.read_file("data/tl_2020_us_zcta520.shp")
Read ==
    /\ pc = "read"
    /\ \/ /\ ~extracted.content.hasShp
          /\ Abort("read", "DataSourceError")
          /\ UNCHANGED zcta
       \/ /\ extracted.content.hasShp
          /\ zcta' = extracted.content.table
          /\ Advance("read")
          /\ UNCHANGED <<dataDir, extracted>>
    /\ UNCHANGED <<run, geojson, response, server, dataDir0, geojson0, prevOut>>

\* zcta = zcta.rename(columns={'ZCTA5CE20': 'zip'})
Rename ==
    /\ pc = "rename"
    /\ zcta' = RenameColumns(zcta, ZctaColumn, "zip")
    /\ Advance("rename")
    /\ UNCHANGED <<run, dataDir, extracted, geojson, response, server,
                   dataDir0, geojson0, prevOut>>

CoerceLenient ==
    /\ pc = "coerce"
    /\ \/ /\ Cardinality(Positions(zcta.columns, "zip")) = 0
          /\ Abort("coerce", "KeyError")
          /\ UNCHANGED zcta
       \/ /\ Cardinality(Positions(zcta.columns, "zip")) > 1
          /\ Abort("coerce", "TypeError")
          /\ UNCHANGED zcta
       \/ /\ Cardinality(Positions(zcta.columns, "zip")) = 1
          /\ zcta' = ReplaceColumn(zcta, "zip",
                         [r \in 1..Len(zcta.rows) |->
                             IF Parsable(Column(zcta, "zip")[r])
                             THEN ParseInt(Column(zcta, "zip")[r]) ELSE 0])
          /\ Advance("coerce")
          /\ UNCHANGED <<dataDir, extracted>>
    /\ UNCHANGED <<run, geojson, response, server, dataDir0, geojson0, prevOut>>

CoerceMissingOk ==
    /\ pc = "coerce"
    /\ \/ /\ Cardinality(Positions(zcta.columns, "zip")) = 0
          /\ Advance("coerce")
          /\ UNCHANGED <<zcta, dataDir, extracted>>
       \/ /\ Cardinality(Positions(zcta.columns, "zip")) > 1
          /\ Abort("coerce", "TypeError")
          /\ UNCHANGED zcta
       \/ /\ Cardinality(Positions(zcta.columns, "zip")) = 1
          /\ \E r \in 1..Len(zcta.rows) : ~Parsable(Column(zcta, "zip")[r])
          /\ Abort("coerce", "ValueError")
          /\ UNCHANGED zcta
       \/ /\ Cardinality(Positions(zcta.columns, "zip")) = 1
          /\ \A r \in 1..Len(zcta.rows) : Parsable(Column(zcta, "zip")[r])
          /\ zcta' = ReplaceColumn(zcta, "zip",
                         [r \in 1..Len(zcta.rows) |-> ParseInt(Column(zcta, "zip")[r])])
          /\ Advance("coerce")
          /\ UNCHANGED <<dataDir, extracted>>
    /\ UNCHANGED <<run, geojson, response, server, dataDir0, geojson0, prevOut>>

\* zcta['zip'] = pd.to_numeric(zcta['zip']): zcta['zip'] raises KeyError when no
\* column has the name and is a DataFrame, which to_numeric rejects, when two
\* have it; to_numeric raises ValueError on the first text it cannot parse.
Coerce ==
    /\ pc = "coerce"
    /\ \/ /\ Cardinality(Positions(zcta.columns, "zip")) = 0
          /\ Abort("coerce", "KeyError")
          /\ UNCHANGED zcta
       \/ /\ Cardinality(Positions(zcta.columns, "zip")) > 1
          /\ Abort("coerce", "TypeError")
          /\ UNCHANGED zcta
       \/ /\ Cardinality(Positions(zcta.columns, "zip")) = 1
          /\ \E r \in 1..Len(zcta.rows) : ~Parsable(Column(zcta, "zip")[r])
          /\ Abort("coerce", "ValueError")
          /\ UNCHANGED zcta
       \/ /\ Cardinality(Positions(zcta.columns, "zip")) = 1
          /\ \A r \in 1..Len(zcta.rows) : Parsable(Column(zcta, "zip")[r])
          /\ zcta' = ReplaceColumn(zcta, "zip",
                         [r \in 1..Len(zcta.rows) |-> ParseInt(Column(zcta, "zip")[r])])
          /\ Advance("coerce")
          /\ UNCHANGED <<dataDir, extracted>>
    /\ UNCHANGED <<run, geojson, response, server, dataDir0, geojson0, prevOut>>

\* zcta = zcta[['zip', 'geometry']]: both columns exist here, zip because the
\* coercion passed and geometry because read_file always provides it.
Project ==
    /\ pc = "project"
    /\ zcta' = SelectColumns(zcta, <<"zip", "geometry">>)
    /\ Advance("project")
    /\ UNCHANGED <<run, dataDir, extracted, geojson, response, server,
                   dataDir0, geojson0, prevOut>>

\* zcta['geometry'] = zcta['geometry'].simplify(tolerance=0.001)
Simplify ==
    /\ pc = "simplify"
    /\ zcta' = ReplaceColumn(zcta, "geometry",
                   [r \in 1..Len(zcta.rows) |->
                       SimplifyGeometry(Column(zcta, "geometry")[r], Tolerance)])
    /\ Advance("simplify")
    /\ UNCHANGED <<run, dataDir, extracted, geojson, response, server,
                   dataDir0, geojson0, prevOut>>

WriteSkipFirst ==
    /\ pc = "write"
    /\ geojson' = WriteGeoJSON(geojson, [zcta EXCEPT !.rows = IF zcta.rows = <<>> THEN <<>> ELSE Tail(zcta.rows)])
    /\ Advance("write")
    /\ UNCHANGED <<run, dataDir, extracted, response, zcta, server,
                   dataDir0, geojson0, prevOut>>

\* zcta.to_file(geojson_path, driver='GeoJSON'), then the size report; a write
\* the filesystem refuses leaves the old file or a truncated one.
Write ==
    /\ pc = "write"
    /\ \/ /\ geojson' = WriteGeoJSON(geojson, zcta)
          /\ Advance("write")
          /\ UNCHANGED <<dataDir, extracted>>
       \/ /\ geojson' \in {geojson, Truncated}
          /\ Abort("write", "OSError")
    /\ UNCHANGED <<run, response, zcta, server, dataDir0, geojson0, prevOut>>

\* The script is started again: a new process on the files the last one left.
Rerun ==
    /\ pc \in {"done", "failed"}
    /\ run < MaxRuns
    /\ run' = run + 1
    /\ pc' = StageOrder[1]
    /\ trace' = <<>>
    /\ response' = NoResponse
    /\ zcta' = EmptyTable
    /\ dataDir0' = dataDir
    /\ geojson0' = geojson
    /\ prevOut' = IF pc = "done" THEN geojson ELSE prevOut
    /\ UNCHANGED <<dataDir, extracted, geojson, server>>

Next ==
    \/ Mkdir
    \/ Fetch
    \/ Extract
    \/ Read
    \/ Rename
    \/ Coerce
    \/ Project
    \/ Simplify
    \/ Write
    \/ Rerun

Spec == Init /\ [][Next]_vars

\* Five-digit codes over a few digits, one feature each: the inputs of the
\* numeric coercion.
CodeAlphabet == {"0", "1", "2", "6", "9"}

InitCodes ==
    /\ pc = StageOrder[1]
    /\ run = 1
    /\ dataDir \in BOOLEAN
    /\ extracted = NoFiles
    /\ geojson \in (IF dataDir THEN {NoFile, OldFile} ELSE {NoFile})
    /\ response = NoResponse
    /\ zcta = EmptyTable
    /\ \E code \in [1..CodeWidth -> CodeAlphabet] :
          server = [hasShp |-> TRUE,
                    table  |-> SourceTable(<<ZctaColumn>>, << <<code, Square>> >>)]
    /\ trace = <<>>
    /\ dataDir0 = dataDir
    /\ geojson0 = geojson
    /\ prevOut = NoFile

SpecCodes == InitCodes /\ [][Next]_vars

(* ------------------------------ claims -------------------------------- *)

IsPrefix(s, t) == Len(s) <= Len(t) /\ \A i \in 1..Len(s) : s[i] = t[i]

Ran(stage) == \E i \in 1..Len(trace) : trace[i][1] = stage

Passed(stage) == \E i \in 1..Len(trace) : trace[i] = <<stage, "ok">>

EndedWith(stage, kind) == pc = "failed" /\ trace[Len(trace)] = <<stage, kind>>

\* The table read_file loaded in this run.
Shapefile == extracted.content.table

AfterCoercion == {"project", "simplify", "write", "done"}

OutputUntouched == geojson = geojson0 /\ ~Ran("write")

DigitChar(d) ==
    CASE d = 0 -> "0" [] d = 1 -> "1" [] d = 2 -> "2" [] d = 3 -> "3"
      [] d = 4 -> "4" [] d = 5 -> "5" [] d = 6 -> "6" [] d = 7 -> "7"
      [] d = 8 -> "8" [] d = 9 -> "9"

\* n written in w decimal digits, padded with zeros on the left.
ZeroPad(n, w) == [i \in 1..w |-> DigitChar((n \div (10 ^ (w - i))) % 10)]

\* C1 as stated: once a shapefile without a ZCTA5CE20 column has been read, the
\* run never gets past the coercion and the writer never runs: the run ends at
\* the coercion with a KeyError and data/zip_codes.geojson is as the run found it.
C1_MissingColumnAborts ==
    (Passed("read") /\ ZctaColumn \notin Range(Shapefile.columns))
        => /\ pc \notin AfterCoercion
           /\ OutputUntouched
           /\ pc = "failed" => EndedWith("coerce", "KeyError")

\* C1 amended: once a shapefile with neither a ZCTA5CE20 column nor a column
\* already named zip has been read, the run never gets past the coercion, ends
\* there with a KeyError, and data/zip_codes.geojson is as the run found it.
C1_NoZipColumnAborts ==
    (/\ Passed("read")
     /\ ZctaColumn \notin Range(Shapefile.columns)
     /\ "zip" \notin Range(Shapefile.columns))
        => /\ pc \notin AfterCoercion
           /\ OutputUntouched
           /\ pc = "failed" => EndedWith("coerce", "KeyError")

C1_Witness ==
    /\ Passed("read")
    /\ Range(Shapefile.columns) = {"GEOID20", "geometry"}
    /\ Len(Shapefile.rows) > 0
    /\ EndedWith("coerce", "KeyError")
    /\ geojson0 = OldFile
    /\ geojson = OldFile

\* The order the claim gives: the directory check, then fetch, extract, the five
\* steps of the transform, write.
ClaimedOrder ==
    <<"mkdir", "fetch", "extract", "read", "rename", "coerce", "project",
      "simplify", "write">>

\* C2: the stages a run has executed are an initial part of the claimed order
\* (so each ran once, in order, none again); every stage but the last executed
\* completed without error; the run is at the next stage of the order, or done
\* after the last, or stopped at the stage that raised.
C2_StrictOrder ==
    /\ IsPrefix([i \in 1..Len(trace) |-> trace[i][1]], ClaimedOrder)
    /\ \A i \in 1..(Len(trace) - 1) : trace[i][2] = "ok"
    /\ IF trace # <<>> /\ trace[Len(trace)][2] # "ok"
       THEN pc = "failed"
       ELSE IF Len(trace) = Len(ClaimedOrder)
            THEN pc = "done"
            ELSE pc = ClaimedOrder[Len(trace) + 1]

C2_Witness ==
    /\ pc = "done"
    /\ run = 2
    /\ Len(trace) = Len(ClaimedOrder)
    /\ Len(zcta.rows) > 0

\* C3: when the shapefile read has a ZCTA5CE20 column (and its geometry), the
\* table the writer is given, and the table it was given once it has run, has
\* the columns zip and geometry and no other.
C3_TwoColumns ==
    (/\ Passed("read")
     /\ ZctaColumn \in Range(Shapefile.columns)
     /\ pc = "write" \/ Ran("write"))
        => zcta.columns = <<"zip", "geometry">>

C3_Witness ==
    /\ pc = "done"
    /\ Shapefile.columns = <<ZctaColumn, "GEOID20", "geometry">>
    /\ Len(zcta.rows) > 0
    /\ zcta.columns = <<"zip", "geometry">>

\* The text codes of the shapefile's rows (every attribute column carries them).
SourceCodes == [r \in 1..Len(Shapefile.rows) |-> Shapefile.rows[r][1]]

PairwiseDistinct(s) == \A i, j \in 1..Len(s) : i # j => s[i] # s[j]

OutputZips == [r \in 1..Len(geojson.features) |-> geojson.features[r].properties[1][2]]

C5_CoercionRoundTrip ==
    (pc = "project" /\ Len(SourceCodes) = 1 /\ Parsable(SourceCodes[1]))
        => LET code == SourceCodes[1]
               zip  == zcta.rows[1][1]
           IN  /\ zip \in 0..(10 ^ CodeWidth - 1)
               /\ ZeroPad(zip, CodeWidth) = code
               /\ code = <<"0", "0", "6", "0", "1">> => zip = 601
               /\ code = <<"9", "0", "2", "1", "0">> => zip = 90210

C5_Witness ==
    /\ pc = "project"
    /\ SourceCodes = << <<"0", "0", "6", "0", "1">> >>
    /\ zcta.rows[1][1] = 601

\* C6: a run that completes after an earlier run completed leaves
\* data/zip_codes.geojson with the content the earlier run left.
C6_SecondRunSame == (pc = "done" /\ prevOut.exists) => geojson = prevOut

C6_Witness ==
    /\ pc = "done"
    /\ run = 2
    /\ prevOut.exists
    /\ extracted.present
    /\ Len(geojson.features) = 2
    /\ geojson = prevOut

\* C7: a step that ends in the failed state leaves the raising stage as the last
\* one executed, all earlier ones completed, and the directory and the files
\* extracted before it on disk; from the failed state the process changes
\* nothing more (only a new invocation of the script follows).
C7_FailureIsFatal ==
    [][/\ pc' = "failed" =>
            /\ trace' # <<>>
            /\ trace'[Len(trace')][2] # "ok"
            /\ \A i \in 1..(Len(trace') - 1) : trace'[i][2] = "ok"
            /\ IsPrefix([i \in 1..Len(trace') |-> trace'[i][1]], ClaimedOrder)
            /\ trace'[Len(trace')][1] \in {"read", "coerce", "write"} =>
                   /\ dataDir'
                   /\ extracted'.present
                   /\ extracted'.content = response'.body
       /\ (pc = "failed" /\ run' = run) =>
            UNCHANGED <<pc, trace, dataDir, extracted, geojson, zcta>>]_vars

C7_Witness ==
    /\ EndedWith("write", "OSError")
    /\ extracted.present
    /\ extracted.content.hasShp
    /\ geojson = Truncated

C9_UnparsableAborts ==
    (/\ Passed("read")
     /\ Cardinality({i \in 1..Len(Shapefile.columns) :
                        Shapefile.columns[i] \in {ZctaColumn, "zip"}}) = 1
     /\ \E r \in 1..Len(SourceCodes) : ~Parsable(SourceCodes[r]))
        => /\ pc \notin AfterCoercion
           /\ OutputUntouched
           /\ pc = "failed" => EndedWith("coerce", "ValueError")

C9_Witness ==
    /\ EndedWith("coerce", "ValueError")
    /\ Len(SourceCodes) = 2
    /\ Parsable(SourceCodes[1])
    /\ ~Parsable(SourceCodes[2])
    /\ geojson0 = OldFile
    /\ geojson = OldFile

\* C10: whenever the run is about to issue the download or has issued it,
\* whether or not the download succeeded, the directory data/ exists.
C10_DirectoryBeforeFetch == (pc = "fetch" \/ Ran("fetch")) => dataDir

C10_Witness ==
    /\ ~dataDir0
    /\ EndedWith("fetch", "ConnectionError")
    /\ dataDir
    /\ ~extracted.present

====
